---- MODULE Spec2Model ----
(***************************************************************************)
(* Model of the NATS control-plane client: NatsClient (the transport       *)
(* adapter, clients/nats_client.py), ManagerService (the command service,  *)
(* services/send_cmd.py), the message schema (models/cmd.py) and the       *)
(* concurrent dispatch of main.py.                                         *)
(*                                                                         *)
(* Coroutines are modelled as processes.  One action runs a coroutine from *)
(* one suspension point to the next one: asyncio never preempts a          *)
(* coroutine between two awaits.  The suspension points are the three      *)
(* transport awaits: NATS.connect, NATS.close and NATS.request.            *)
(***************************************************************************)
EXTENDS Integers, Sequences, FiniteSets, TLC

\* ------------------------------------------------------------------------
\* Bounds of the model
\* ------------------------------------------------------------------------
NumWorkers == 2     \* coroutines that call the client and the service
MaxCalls == 3       \* calls they begin in one behaviour

Workers == 1..NumWorkers

\* ------------------------------------------------------------------------
\* Optional[T]: None is the empty tuple, a present value x is <<x>>
\* ------------------------------------------------------------------------
None == <<>>
Some(x) == <<x>>

\* ------------------------------------------------------------------------
\* Exception classes, by qualified name, and the subclass relation that
\* decides which except clause takes an exception.
\* ------------------------------------------------------------------------
ConnectionError == "builtins.ConnectionError"
TimeoutError == "builtins.TimeoutError"
ValueError == "builtins.ValueError"
AttributeError == "builtins.AttributeError"
RuntimeError == "builtins.RuntimeError"
CancelledError == "asyncio.CancelledError"
JSONDecodeError == "json.JSONDecodeError"
ValidationError == "pydantic.ValidationError"
NATSTimeoutError == "nats.errors.TimeoutError"
ConnectionClosedError == "nats.errors.ConnectionClosedError"
NoRespondersError == "nats.errors.NoRespondersError"
Exception == "builtins.Exception"
NoExc == ""

\* the classes an exception of class e is an instance of
Bases(e) ==
  CASE e = JSONDecodeError -> {JSONDecodeError, ValueError, Exception}
    [] e = ValidationError -> {ValidationError, ValueError, Exception}
    [] e = NATSTimeoutError -> {NATSTimeoutError, TimeoutError, Exception}
    [] e = CancelledError -> {CancelledError}
    [] OTHER -> {e, Exception}

IsInstance(e, cls) == cls \in Bases(e)

\* ------------------------------------------------------------------------
\* models/cmd.py: the message schema
\* ------------------------------------------------------------------------
cmd_type == {"start", "stop", "status"}
MsgStatus == {"success", "error"}
AppStatus == {"started", "stopped", "error"}

CommandPayload(segment_time, snd_source, snd_byterate, vid_stream, vid_byterate) ==
  [segment_time |-> segment_time, snd_source |-> snd_source,
   snd_byterate |-> snd_byterate, vid_stream |-> vid_stream,
   vid_byterate |-> vid_byterate]

StartPayload ==
  CommandPayload(Some(300), Some("pulsesrc01"), Some(96), Some("main"), Some(2000))

StopPayload == CommandPayload(Some(300), None, None, None, None)

CommandMessage(task_id, cmd, payload) ==
  [task_id |-> task_id, cmd |-> cmd, payload |-> payload]

ResponsePayload(segment_time, file_path, at_started, at_stopped) ==
  [segment_time |-> segment_time, file_path |-> file_path,
   at_started |-> at_started, at_stopped |-> at_stopped]

ResponseMessage(task_id, msg_status, app_status, payload) ==
  [task_id |-> task_id, msg_status |-> msg_status,
   app_status |-> app_status, payload |-> payload]

\* ------------------------------------------------------------------------
\* What a call produced: a returned value or a raised exception.
\*   resp      the ResponseMessage returned (None for connect/disconnect)
\*   synth     the ResponseMessage was built by _send_command itself
\* ------------------------------------------------------------------------
Returned(resp, synth) ==
  [kind |-> "return", resp |-> resp, exc |-> NoExc, synth |-> synth]
Raised(exc) ==
  [kind |-> "raise", resp |-> None, exc |-> exc, synth |-> FALSE]
NoOutcome == [kind |-> "none", resp |-> None, exc |-> NoExc, synth |-> FALSE]

\* ------------------------------------------------------------------------
\* models/cmd.py: construction of a CommandMessage from keyword arguments.
\* pydantic validates the fields: task_id must be a str (None is none),
\* cmd one of the literals of cmd_type, payload a CommandPayload or None.
\* The message built is in the resp field of the outcome.
\* ------------------------------------------------------------------------
\* variant: cmd is declared as str, any command name is accepted
CommandMessage_init_any_cmd(task_id, cmd, payload) ==
  IF task_id = None THEN Raised(ValidationError)
  ELSE Returned(Some(CommandMessage(task_id[1], cmd, payload)), FALSE)

CommandMessage_init(task_id, cmd, payload) ==
  IF task_id = None \/ cmd \notin cmd_type THEN Raised(ValidationError)
  ELSE Returned(Some(CommandMessage(task_id[1], cmd, payload)), FALSE)

\* ------------------------------------------------------------------------
\* models/cmd.py: the wire text of a CommandMessage.  A JSON document is
\* modelled by its values: null, a string, a number, an object.
\* ------------------------------------------------------------------------
JNull == [t |-> "null"]
JString(s) == [t |-> "string", v |-> s]
JNumber(n) == [t |-> "number", v |-> n]
JObject(fields) == [t |-> "object", v |-> fields]

\* the fields of CommandPayload and their declared types
PayloadFields ==
  [segment_time |-> "float", snd_source |-> "str", snd_byterate |-> "int",
   vid_stream |-> "str", vid_byterate |-> "int"]

\* variant: a field that is None is written as the empty string
dump_field_none_as_empty(type, value) ==
  IF value = None THEN JString("")
  ELSE IF type = "str" THEN JString(value[1]) ELSE JNumber(value[1])

\* serialization of an Optional field: None is null, a str a JSON string,
\* a float or an int a JSON number
dump_field(type, value) ==
  IF value = None THEN JNull
  ELSE IF type = "str" THEN JString(value[1]) ELSE JNumber(value[1])

\* CommandMessage.model_dump_json(): the object with exactly the keys
\* task_id, cmd and payload; the payload is null or the object of its
\* five fields
model_dump_json(msg) ==
  JObject([task_id |-> JString(msg.task_id),
           cmd |-> JString(msg.cmd),
           payload |->
             IF msg.payload = None THEN JNull
             ELSE JObject([f \in DOMAIN PayloadFields |->
                             dump_field(PayloadFields[f], msg.payload[1][f])])])

\* validation of an Optional field of the given type: null is None, a
\* JSON value of the type is taken, any other value is an error.  The
\* strings of the model are no numerals, so none is taken for a number.
FieldValid(type, j) ==
  \/ j.t = "null"
  \/ type = "str" /\ j.t = "string"
  \/ type \in {"float", "int"} /\ j.t = "number"

load_field(type, j) == IF j.t = "null" THEN None ELSE Some(j.v)

\* CommandMessage(**json.loads(text)): the message, or ValidationError when
\* a value has not the type of its field or cmd is no literal of cmd_type
model_validate_json(text) ==
  LET o == text.v
      pl == o.payload
  IN IF \/ o.task_id.t # "string"
        \/ o.cmd.t # "string"
        \/ pl.t \notin {"null", "object"}
        \/ pl.t = "object" /\ \E f \in DOMAIN PayloadFields :
                                ~FieldValid(PayloadFields[f], pl.v[f])
     THEN Raised(ValidationError)
     ELSE CommandMessage_init(
            Some(o.task_id.v), o.cmd.v,
            IF pl.t = "null" THEN None
            ELSE Some([f \in DOMAIN PayloadFields |->
                         load_field(PayloadFields[f], pl.v[f])]))

\* ------------------------------------------------------------------------
\* The bus: what NATS.request can end with, and the replies a remote
\* handler can put on the wire.
\* ------------------------------------------------------------------------
\* reply texts.  The client never reads the statuses of a schema-valid
\* reply and reads of its payload only whether it is null, so the valid
\* replies are sampled: every msg_status and every app_status with a payload
\* object, and both kinds of reply with a null payload.  Then one reply with
\* each status outside its enumeration, and one text that is no JSON.
SamplePayload ==
  ResponsePayload(Some(300), Some("/mnt/rec001.wav"),
                  Some("2025-10-15T08:55:00Z"), None)

WireReply(json, task_id, msg_status, app_status, payload) ==
  [json |-> json, task_id |-> task_id, msg_status |-> msg_status,
   app_status |-> app_status, payload |-> payload]

ValidReplies(task_id) ==
  {WireReply(TRUE, task_id, "success", "started", Some(SamplePayload)),
   WireReply(TRUE, task_id, "success", "stopped", Some(SamplePayload)),
   WireReply(TRUE, task_id, "error", "error", Some(SamplePayload)),
   WireReply(TRUE, task_id, "success", "started", None),
   WireReply(TRUE, task_id, "error", "error", None)}

WireReplies(task_id) ==
  ValidReplies(task_id)
  \cup
  {WireReply(TRUE, task_id, "bogus", "started", None),
   WireReply(TRUE, task_id, "success", "bogus", None),
   WireReply(FALSE, task_id, "", "", None)}

NoData ==
  [json |-> FALSE, task_id |-> "", msg_status |-> "", app_status |-> "",
   payload |-> None]

BusReply(data) == [kind |-> "reply", data |-> data]
BusError(exc) == [kind |-> exc, data |-> NoData]

\* the failures NATS.request raises
RequestErrors ==
  {NoRespondersError, NATSTimeoutError, ConnectionClosedError, RuntimeError}

\* a request on a connection that is open can end in any way, and so can a
\* request on a connection that was lost meanwhile: its reply may have
\* arrived before the loss was reported to another exchange.  On a handle
\* that is connecting or closed no reply can arrive.
RequestOutcomes(conn_state, task_id) ==
  IF conn_state \in {"open", "lost"}
  THEN {BusReply(d) : d \in WireReplies(task_id)}
       \cup {BusError(e) : e \in RequestErrors}
  ELSE {BusError(e) : e \in RequestErrors \ {NoRespondersError}}

\* the ways an exchange of the concurrent dispatch ends: every failure of
\* the request, a successful reply with a payload, a successful reply
\* without one, an error reply, and a text that is no JSON
GatherReplies(task_id) ==
  {WireReply(TRUE, task_id, "success", "started", Some(SamplePayload)),
   WireReply(TRUE, task_id, "success", "started", None),
   WireReply(TRUE, task_id, "error", "error", None),
   WireReply(FALSE, task_id, "", "", None)}

GatherOutcomes(conn_state, task_id) ==
  {out \in RequestOutcomes(conn_state, task_id) :
     out.kind = "reply" => out.data \in GatherReplies(task_id)}

\* ------------------------------------------------------------------------
\* The remote application that handles the commands: per recording task the
\* state machine stopped --start--> started --stop--> stopped, of which
\* status is an observer.  A start of a started task and a stop of a stopped
\* one are answered with success or with an error, the state staying.
\* ------------------------------------------------------------------------
RemoteTasks == {"task01", "rec_task_A"}
RemoteStates == {"stopped", "started"}

\* the pairs <<state after, reply>> of a task in state that handles cmd
remote_handle(state, task_id, cmd) ==
  LET ok(st) == <<st, WireReply(TRUE, task_id, "success", st,
                                Some(SamplePayload))>>
      refused == <<state, WireReply(TRUE, task_id, "error", "error",
                                    Some(SamplePayload))>>
  IN CASE cmd = "start" ->
            IF state = "started" THEN {ok("started"), refused}
            ELSE {ok("started")}
       [] cmd = "stop" ->
            IF state = "stopped" THEN {ok("stopped"), refused}
            ELSE {ok("stopped")}
       [] OTHER -> {ok(state)}

\* ------------------------------------------------------------------------
\* clients/nats_client.py: NatsClient, the pure parts
\* ------------------------------------------------------------------------
\* variant: connect() has no guard and always opens a connection
already_connected_never(connected, nc) == FALSE

\* variant: the guard of connect() tests only that a NATS() object exists
already_connected_nc_only(connected, nc) == nc # 0

\* the guard of connect(): self._connected and self._nc
already_connected(connected, nc) == connected /\ nc # 0

\* variant: connect() sets _connected in a finally clause
connected_after_connect_always(ok, connected) == TRUE

\* self._connected after "await self._nc.connect(...)" returned (ok) or
\* raised: the assignment follows the await inside the try
connected_after_connect(ok, connected) == IF ok THEN TRUE ELSE connected

\* variant: the ConnectionClosedError clause also drops the NATS() object
\* (self._nc = None)
nc_after_request_reset(out, nc) ==
  IF out.kind = ConnectionClosedError THEN 0 ELSE nc

\* self._nc after the request await of send_command ended with out: no
\* statement of send_command assigns it
nc_after_request(out, nc) == nc

\* variant: the property tests only that a NATS() object was created
is_connected_nc_only(connected, nc) == nc # 0

\* property is_connected
is_connected(connected, nc) == connected /\ nc # 0

\* variant: a status outside its enumeration is replaced by "error"
ParseReply_coercing(data) ==
  IF ~data.json THEN Raised(JSONDecodeError)
  ELSE Returned(Some(ResponseMessage(
                  data.task_id,
                  IF data.msg_status \in MsgStatus THEN data.msg_status
                  ELSE "error",
                  IF data.app_status \in AppStatus THEN data.app_status
                  ELSE "error",
                  data.payload)), FALSE)

\* json.loads(response.data.decode()) followed by ResponseMessage(**data)
ParseReply(data) ==
  IF ~data.json THEN Raised(JSONDecodeError)
  ELSE IF data.msg_status \notin MsgStatus \/ data.app_status \notin AppStatus
       THEN Raised(ValidationError)
       ELSE Returned(Some(ResponseMessage(data.task_id, data.msg_status,
                                          data.app_status, data.payload)),
                     FALSE)

\* the except clauses of send_command, in their order
send_command_except(e) ==
  IF IsInstance(e, NoRespondersError) THEN Raised(ConnectionError)
  ELSE IF IsInstance(e, NATSTimeoutError) THEN Raised(TimeoutError)
  ELSE IF IsInstance(e, ConnectionClosedError) THEN Raised(ConnectionError)
  ELSE IF IsInstance(e, JSONDecodeError) THEN Raised(ValueError)
  ELSE Raised(e)

\* send_command from the end of the request await to its return or raise
send_command_resume(out) ==
  IF out.kind = "reply"
  THEN LET parsed == ParseReply(out.data)
       IN IF parsed.kind = "raise" THEN send_command_except(parsed.exc)
          ELSE parsed
  ELSE send_command_except(out.kind)

\* variant: every except clause of send_command marks the adapter
\* disconnected
connected_after_request_any_failure(out, connected) ==
  IF send_command_resume(out).kind = "raise" THEN FALSE ELSE connected

\* variant: the ConnectionClosedError clause leaves self._connected alone
connected_after_request_unchanged(out, connected) == connected

\* self._connected after the request await: only the ConnectionClosedError
\* clause assigns it
connected_after_request(out, connected) ==
  IF out.kind # "reply"
     /\ ~IsInstance(out.kind, NoRespondersError)
     /\ ~IsInstance(out.kind, NATSTimeoutError)
     /\ IsInstance(out.kind, ConnectionClosedError)
  THEN FALSE
  ELSE connected

\* variant: after the await send_command checks is_connected again and
\* treats the exchange of a disconnected adapter as closed
request_result_checks_connection(out, connected) ==
  IF connected THEN out ELSE BusError(ConnectionClosedError)

\* what "response = await self._nc.request(...)" hands to the rest of
\* send_command: the outcome of the request itself; the adapter state is
\* not read again after the await
request_result(out, connected) == out

\* the levels of the log records send_command emits, in their order, when
\* it is called with the adapter connected or not and, once the request
\* await has ended, after the bus outcome out (NoBus while it is pending).
\* The not-connected check raises with no logger call before it.
send_command_logs(connected, out) ==
  IF ~connected THEN <<>>
  ELSE IF out.kind = "none" THEN <<"debug">>
  ELSE IF send_command_resume(out).kind = "raise" THEN <<"debug", "error">>
  ELSE <<"debug", "info">>

\* ------------------------------------------------------------------------
\* services/send_cmd.py: ManagerService, the pure parts
\* ------------------------------------------------------------------------
\* Python truth value of an Optional[str]
Truthy(s) == s # None /\ s[1] # ""

\* variant: the configured default takes precedence over the argument
\* (self._config.TASK_ID or task_id)
effective_task_id_config_first(task_id, TASK_ID) ==
  IF TASK_ID # "" THEN TASK_ID
  ELSE IF task_id # None THEN task_id[1] ELSE ""

\* effective_task_id = task_id or self._config.TASK_ID
effective_task_id(task_id, TASK_ID) ==
  IF Truthy(task_id) THEN task_id[1] ELSE TASK_ID

\* variant: _send_command keeps the task id it resolved as the new default
\* (self._config.TASK_ID = effective_task_id)
config_after_dispatch_remember(eff, TASK_ID) == eff

\* self._config.TASK_ID after _send_command resolved the task id eff: the
\* service reads its configuration and assigns none of its attributes
config_after_dispatch(eff, TASK_ID) == TASK_ID

\* variant: status() hands the command name of stop() to _send_command
command_name_status_as_stop(op) == IF op = "status" THEN "stop" ELSE op

\* the command_name each operation hands to _send_command
command_name(op) == op

\* variant: status() hands an empty CommandPayload to _send_command
command_payload_status_empty(op) ==
  CASE op = "start" -> Some(StartPayload)
    [] op = "stop" -> Some(StopPayload)
    [] OTHER -> Some(CommandPayload(None, None, None, None, None))

\* the payload each operation hands to _send_command
command_payload(op) ==
  CASE op = "start" -> Some(StartPayload)
    [] op = "stop" -> Some(StopPayload)
    [] OTHER -> None

\* the except clauses of _send_command, in their order
_send_command_except(e, task_id) ==
  IF IsInstance(e, ConnectionClosedError)
  THEN Returned(Some(ResponseMessage(task_id, "error", "error", None)), TRUE)
  ELSE IF IsInstance(e, NATSTimeoutError)
  THEN Returned(Some(ResponseMessage(task_id, "error", "error", None)), TRUE)
  ELSE Returned(Some(ResponseMessage(task_id, "success", "error", None)), TRUE)

\* _send_command from the return or raise of client.send_command on
_send_command_resume(res, task_id) ==
  IF res.kind = "raise" THEN _send_command_except(res.exc, task_id) ELSE res

\* variant: a timeout of the exchange is followed by a second attempt
requests_at_end_retry_timeout(res, s) ==
  IF res = Raised(TimeoutError) THEN s \o s ELSE s

\* the bus requests of a service operation when client.send_command has
\* ended with res, s being those issued before: no except clause of
\* send_command or of _send_command calls the client or the bus again
requests_at_end(res, s) == s

\* start / stop / status after _send_command returned: the logger.info line
\* reads response.payload.file_path (start) and response.payload.at_stopped
\* (stop), an AttributeError when the payload is None; status reads only
\* response.app_status
log_result(op, res) ==
  IF res.kind = "return" /\ op \in {"start", "stop"} /\ res.resp[1].payload = None
  THEN Raised(AttributeError)
  ELSE res

\* ------------------------------------------------------------------------
\* main.py: start_multiple_tasks, the pure parts
\* ------------------------------------------------------------------------
\* the task ids dispatched concurrently
tasks == <<"rec_task_A", "rec_task_B", "rec_task_C">>

\* the coroutines of the concurrent dispatch: the i-th runs start() for
\* tasks[i]
Children == 1..Len(tasks)

\* variant: gather without return_exceptions=True, the first exception
\* raised by an awaitable is raised to the caller and no list is returned
gather_propagating(outs, order) ==
  IF \E i \in 1..Len(order) : outs[order[i]].kind = "raise"
  THEN LET k == CHOOSE i \in 1..Len(order) :
                  /\ outs[order[i]].kind = "raise"
                  /\ \A j \in 1..(i - 1) : outs[order[j]].kind # "raise"
       IN [raised |-> outs[order[k]].exc, results |-> <<>>]
  ELSE [raised |-> NoExc, results |-> [i \in 1..Len(order) |-> outs[i]]]

\* variant: the outcomes are collected as the awaitables end
\* (asyncio.as_completed)
gather_as_completed(outs, order) ==
  [raised |-> NoExc, results |-> [i \in 1..Len(order) |-> outs[order[i]]]]

\* asyncio.gather(*commands, return_exceptions=True): outs[i] is what the
\* i-th awaitable returned or raised, order the order in which they ended.
\* The value is the list of the outcomes in the order of the arguments;
\* nothing is raised.
gather(outs, order) ==
  [raised |-> NoExc, results |-> [i \in 1..Len(order) |-> outs[i]]]

\* ------------------------------------------------------------------------
\* clients/nats_client.py: the scoped session, the pure parts
\* ------------------------------------------------------------------------
SessionKinds == {"get_nats_client", "async_with"}
ExitPaths == {"normal", "failure", "cancel"}

\* variant: disconnect() follows the body without a finally clause
exit_calls_disconnect_normal_only(kind, path) == path = "normal"

\* whether leaving the body by the given path reaches disconnect(): the
\* finally clause of get_nats_client and __aexit__ of NatsClient run on
\* every path
exit_calls_disconnect(kind, path) == TRUE

\* whether a connect() that raised on entry is followed by disconnect():
\* the try of get_nats_client covers connect(), __aexit__ is not called
\* when __aenter__ raised
failed_entry_calls_disconnect(kind) == kind = "get_nats_client"

\* ------------------------------------------------------------------------
\* State
\* ------------------------------------------------------------------------
VARIABLES
  TASK_ID,      \* AppConfig.TASK_ID, the configured default task id
  _nc,          \* NatsClient._nc: 0 is None, h > 0 the h-th NATS() object
  _connected,   \* NatsClient._connected
  conns,        \* conns[h]: transport state of the h-th NATS() object:
                \* connecting, open, closed, or lost (dropped in an exchange)
  pc,           \* pc[p]: the await at which coroutine p is suspended
  call,         \* call[p]: the call coroutine p runs or ran last
  handle,       \* handle[p]: the NATS() object the pending await is on
  ret,          \* ret[p]: what the last call of p returned or raised
  cret,         \* cret[p]: what client.send_command returned or raised in it
  dret,         \* dret[p]: what _send_command returned or raised in it
  got,          \* got[p]: how the last exchange of p ended on the bus
  sent,         \* sent[p]: the bus requests issued by the last call of p
  logs,         \* logs[p]: the levels of the log records that
                \* client.send_command emitted in the last call of p
  ncalls,       \* calls begun by the workers so far
  mpc,          \* where the coroutine that owns the scoped session stands
  session,      \* the scoped session: kind, body, exit path, calls made
  order,        \* the children of the concurrent dispatch, as they ended
  results,      \* the value of asyncio.gather, once it returned
  validated,    \* a message handed to a schema model, and what came of it
  remote        \* the remote application: the state of each of its tasks

cvars == <<_nc, _connected, conns>>
pvars == <<pc, call, handle, ret, cret, dret, got, sent, logs>>
svars == <<mpc, session, order, results, validated, remote>>
vars == <<TASK_ID, cvars, pvars, ncalls, svars>>

\* coroutine 0 owns the scoped session
Main == 0
Procs == {Main} \cup Workers \cup Children

\* explicit task id arguments: absent, empty, blank, a proper id
TaskIdArgs == {None, Some(""), Some(" "), Some("rec_task_A")}
\* configured default task ids: the default of AppConfig, and an empty one
ConfigTaskIds == {"task01", ""}

\* a call: the operation, its task id argument, the effective task id, and
\* whether the adapter was connected (_connected and _nc set) when it began
NoCall == [op |-> "none", task_id |-> None, eff |-> "", connected |-> FALSE]
NoBus == [kind |-> "none", data |-> NoData]
NoSession == [kind |-> "none", body |-> "none", path |-> "none", log |-> <<>>]
NoGather == [raised |-> NoExc, results |-> <<>>]
NoValidation == [model |-> "none", input |-> <<>>, outcome |-> NoOutcome]
\* the remote application left open: it answers as any handler may
NoRemote == <<>>

InitClient ==
  /\ TASK_ID \in ConfigTaskIds
  /\ _nc = 0
  /\ _connected = FALSE
  /\ conns = <<>>
  /\ pc = [p \in Procs |-> "idle"]
  /\ call = [p \in Procs |-> NoCall]
  /\ handle = [p \in Procs |-> 0]
  /\ ret = [p \in Procs |-> NoOutcome]
  /\ cret = [p \in Procs |-> NoOutcome]
  /\ dret = [p \in Procs |-> NoOutcome]
  /\ got = [p \in Procs |-> NoBus]
  /\ sent = [p \in Procs |-> <<>>]
  /\ logs = [p \in Procs |-> <<>>]
  /\ ncalls = 0
  /\ order = <<>>
  /\ results = NoGather

\* a NatsClient and a ManagerService after construction, no scoped session
Init ==
  /\ InitClient
  /\ mpc = "off"
  /\ session = NoSession
  /\ validated = NoValidation
  /\ remote = NoRemote

\* What the callers observe.  The outcome of a call is held by its caller:
\* asyncio.gather holds the outcomes of its awaitables until all have ended;
\* independent callers are observed one call at a time, the record of an
\* ended call lasting until the next call begins or ends.
Held(q) == mpc # "off" \/ pc[q] # "idle"

Upd(f, p, v, neutral) ==
  [q \in Procs |-> IF q = p THEN v ELSE IF Held(q) THEN f[q] ELSE neutral]

\* coroutine p goes to at (an await on NATS() object h, or "idle" when its
\* call c has ended) with the outcomes r, cr, dr of the call, of
\* client.send_command and of _send_command, the bus outcome g and the
\* requests s issued so far
SetProc(p, at, c, h, r, cr, dr, g, s) ==
  /\ pc' = [pc EXCEPT ![p] = at]
  /\ call' = Upd(call, p, c, NoCall)
  /\ handle' = [handle EXCEPT ![p] = h]
  /\ ret' = Upd(ret, p, r, NoOutcome)
  /\ cret' = Upd(cret, p, cr, NoOutcome)
  /\ dret' = Upd(dret, p, dr, NoOutcome)
  /\ got' = Upd(got, p, g, NoBus)
  /\ sent' = Upd(sent, p, s, <<>>)
  /\ logs' = Upd(logs, p,
                 IF at = "request" THEN send_command_logs(TRUE, NoBus)
                 ELSE IF cr = NoOutcome THEN <<>>
                 ELSE send_command_logs(c.connected, g),
                 <<>>)

\* coroutine p ends the call c of connect() or disconnect() with outcome r
End(p, c, r) ==
  SetProc(p, "idle", c, 0, r, NoOutcome, NoOutcome, NoBus, <<>>)

\* coroutine p ends the service operation c: client.send_command ended with
\* cr (NoOutcome when it was not called) after the bus outcome g,
\* _send_command with dr; the operation ends as the log line lets it
EndOperation(p, c, cr, dr, g) ==
  SetProc(p, "idle", c, 0, log_result(c.op, dr), cr, dr, g,
          requests_at_end(cr, sent[p]))

\* coroutine p suspends in call c at an await on NATS() object h, having
\* issued the requests s
Await(p, at, c, h, s) ==
  SetProc(p, at, c, h, NoOutcome, NoOutcome, NoOutcome, NoBus, s)

\* a worker begins one more call.  The workers are interchangeable callers:
\* of the idle ones, the one with the least index takes the call.
Count(p) ==
  /\ ncalls < MaxCalls
  /\ \A q \in Workers : q < p => pc[q] # "idle"
  /\ ncalls' = ncalls + 1

ConnectCall ==
  [op |-> "connect", task_id |-> None, eff |-> "",
   connected |-> (_connected /\ _nc # 0)]
DisconnectCall ==
  [op |-> "disconnect", task_id |-> None, eff |-> "",
   connected |-> (_connected /\ _nc # 0)]

\* ------------------------------------------------------------------------
\* NatsClient.connect
\* ------------------------------------------------------------------------
\* connect() up to "await self._nc.connect(self.nats_url)"
connect_call(p) ==
  /\ IF already_connected(_connected, _nc)
     THEN /\ End(p, ConnectCall, Returned(None, FALSE))
          /\ UNCHANGED <<_nc, conns>>
     ELSE /\ conns' = Append(conns, "connecting")
          /\ _nc' = Len(conns) + 1
          /\ Await(p, "connect", ConnectCall, Len(conns) + 1, <<>>)
  /\ UNCHANGED <<TASK_ID, _connected>>

connect(p) ==
  /\ pc[p] = "idle"
  /\ Count(p)
  /\ connect_call(p)
  /\ UNCHANGED svars

\* the await ends: the connection is established, or the attempt failed
connect_resume(p, ok) ==
  /\ pc[p] = "connect"
  /\ IF ok
     THEN /\ conns' = [conns EXCEPT ![handle[p]] = "open"]
          /\ End(p, call[p], Returned(None, FALSE))
     ELSE /\ conns' = [conns EXCEPT ![handle[p]] = "closed"]
          /\ End(p, call[p], Raised(ConnectionError))
  /\ _connected' = connected_after_connect(ok, _connected)
  /\ UNCHANGED <<TASK_ID, _nc, ncalls, svars>>

\* ------------------------------------------------------------------------
\* NatsClient.disconnect
\* ------------------------------------------------------------------------
\* disconnect() up to "await self._nc.close()"
disconnect_call(p) ==
  /\ IF _nc # 0 /\ _connected
     THEN Await(p, "close", DisconnectCall, _nc, <<>>)
     ELSE End(p, DisconnectCall, Returned(None, FALSE))
  /\ UNCHANGED <<TASK_ID, _nc, _connected, conns>>

disconnect(p) ==
  /\ pc[p] = "idle"
  /\ Count(p)
  /\ disconnect_call(p)
  /\ UNCHANGED svars

\* the await ends: the connection is closed, or close() raised; the except
\* clause swallows the error and _connected keeps its value.  Whether the
\* transport is still open after a failed close is the transport's matter:
\* both outcomes are possible.
disconnect_resume(p, ok, still_open) ==
  /\ pc[p] = "close"
  /\ IF ok
     THEN /\ conns' = [conns EXCEPT ![handle[p]] = "closed"]
          /\ _connected' = FALSE
     ELSE /\ conns' = [conns EXCEPT ![handle[p]] =
                         IF still_open THEN @ ELSE "closed"]
          /\ UNCHANGED _connected
  /\ End(p, call[p], Returned(None, FALSE))
  /\ UNCHANGED <<TASK_ID, _nc, ncalls, svars>>

\* ------------------------------------------------------------------------
\* ManagerService.start / stop / status over NatsClient.send_command
\* ------------------------------------------------------------------------
\* the operation up to "await self._nc.request(...)": _send_command resolves
\* the task id and builds the command, send_command checks the connection
\* and issues the request
dispatch_call(p, op, task_id) ==
  LET eff == effective_task_id(task_id, TASK_ID)
      c == [op |-> op, task_id |-> task_id, eff |-> eff,
            connected |-> (_connected /\ _nc # 0)]
  IN
  /\ IF eff = ""
     THEN SetProc(p, "idle", c, 0, Raised(ValueError), NoOutcome,
                  Raised(ValueError), NoBus, <<>>)
     ELSE IF ~is_connected(_connected, _nc)
     THEN SetProc(p, "idle", c, 0,
                  log_result(op, _send_command_resume(Raised(ConnectionError), eff)),
                  Raised(ConnectionError),
                  _send_command_resume(Raised(ConnectionError), eff),
                  NoBus, <<>>)
     ELSE Await(p, "request", c, _nc,
                <<[handle |-> _nc,
                   cmd |-> CommandMessage(eff, command_name(op),
                                          command_payload(op))]>>)
  /\ TASK_ID' = config_after_dispatch(eff, TASK_ID)
  /\ UNCHANGED <<_nc, _connected, conns>>

dispatch(p, op, task_id) ==
  /\ pc[p] = "idle"
  /\ Count(p)
  /\ dispatch_call(p, op, task_id)
  /\ UNCHANGED svars

\* the request await ends with the bus outcome out, one of RequestOutcomes:
\* a reply or the absence of responders is learnt over a connection that
\* was established
request_end(p, out) ==
  /\ pc[p] = "request"
  /\ out.kind \in {"reply", NoRespondersError}
       => conns[handle[p]] \in {"open", "lost"}
  /\ LET res == send_command_resume(request_result(out, _connected))
     IN EndOperation(p, call[p], res,
                     _send_command_resume(res, call[p].eff), out)
  /\ _connected' = connected_after_request(out, _connected)
  /\ conns' = IF out.kind = ConnectionClosedError
              THEN [conns EXCEPT ![handle[p]] = IF @ = "open" THEN "lost" ELSE @]
              ELSE conns
  /\ _nc' = nc_after_request(out, _nc)
  /\ UNCHANGED <<TASK_ID, ncalls>>

\* variant: the request is awaited with no timeout and ends only by a
\* reply
request_resume_reply_only(p, out) ==
  /\ out.kind = "reply"
  /\ request_end(p, out)
  /\ UNCHANGED svars

request_resume(p, out) ==
  /\ request_end(p, out)
  /\ UNCHANGED svars

Requesting(ps) == {q \in ps : pc[q] = "request"}

\* ------------------------------------------------------------------------
\* Specification: coroutines calling one NatsClient and one ManagerService
\* ------------------------------------------------------------------------
Next ==
  \/ \E p \in Workers : connect(p)
  \/ \E p \in Workers, ok \in BOOLEAN : connect_resume(p, ok)
  \/ \E p \in Workers : disconnect(p)
  \/ \E p \in Workers, ok \in BOOLEAN, still_open \in BOOLEAN :
       disconnect_resume(p, ok, still_open)
  \/ \E p \in Workers, op \in cmd_type, t \in TaskIdArgs : dispatch(p, op, t)
  \/ \E p \in Requesting(Workers) :
       \E out \in RequestOutcomes(conns[handle[p]], call[p].eff) :
          request_resume(p, out)

Spec == Init /\ [][Next]_vars

\* ------------------------------------------------------------------------
\* Specification: the adapter under its callers.  NatsClient does not read
\* the command it is handed, so the operations are dispatched with one
\* explicit task id and the default configuration.
\* ------------------------------------------------------------------------
InitAdapter ==
  /\ Init
  /\ TASK_ID = "task01"

NextAdapter ==
  \/ \E p \in Workers : connect(p)
  \/ \E p \in Workers, ok \in BOOLEAN : connect_resume(p, ok)
  \/ \E p \in Workers : disconnect(p)
  \/ \E p \in Workers, ok \in BOOLEAN, still_open \in BOOLEAN :
       disconnect_resume(p, ok, still_open)
  \/ \E p \in Workers, op \in cmd_type : dispatch(p, op, Some(tasks[1]))
  \/ \E p \in Requesting(Workers) :
       \E out \in RequestOutcomes(conns[handle[p]], call[p].eff) :
          request_resume(p, out)

SpecAdapter == InitAdapter /\ [][NextAdapter]_vars

\* the request of send_command is awaited with timeout=self.timeout: the
\* await ends, by a reply, by a failure the transport reports or by the
\* timeout, and the event loop resumes the coroutine
RequestEnds(p) ==
  /\ p \in Requesting(Workers)
  /\ \E out \in RequestOutcomes(conns[handle[p]], call[p].eff) :
        request_resume(p, out)

SpecAdapterFair ==
  /\ InitAdapter
  /\ [][NextAdapter]_vars
  /\ \A p \in Workers : WF_vars(RequestEnds(p))

\* ------------------------------------------------------------------------
\* Specification: the service and the adapter over a bus on which the
\* remote application answers.  Its tasks change state only by the commands
\* it handles.
\* ------------------------------------------------------------------------
InitRemote ==
  /\ InitClient
  /\ TASK_ID = "task01"
  /\ mpc = "off"
  /\ session = NoSession
  /\ validated = NoValidation
  /\ remote \in [RemoteTasks -> RemoteStates]

\* the command of the request coroutine p awaits, as it is on the wire
Pending(p) == sent[p][1].cmd

Handled(p) ==
  remote_handle(remote[Pending(p).task_id], Pending(p).task_id,
                Pending(p).cmd)

\* the remote application handles the command and its reply arrives
remote_reply(p, h) ==
  /\ pc[p] = "request"
  /\ h \in Handled(p)
  /\ request_end(p, BusReply(h[2]))
  /\ remote' = [remote EXCEPT ![Pending(p).task_id] = h[1]]
  /\ UNCHANGED <<mpc, session, order, results, validated>>

\* the request fails with e.  A request that timed out may have been
\* handled all the same: nothing makes the remote side abort.
remote_fail(p, e, h) ==
  /\ pc[p] = "request"
  /\ h \in Handled(p) \cup {<<>>}
  /\ h # <<>> => e = NATSTimeoutError /\ conns[handle[p]] \in {"open", "lost"}
  /\ request_end(p, BusError(e))
  /\ remote' = IF h = <<>> THEN remote
                ELSE [remote EXCEPT ![Pending(p).task_id] = h[1]]
  /\ UNCHANGED <<mpc, session, order, results, validated>>

NextRemote ==
  \/ \E p \in Workers : connect(p)
  \/ \E p \in Workers, ok \in BOOLEAN : connect_resume(p, ok)
  \/ \E p \in Workers : disconnect(p)
  \/ \E p \in Workers, ok \in BOOLEAN, still_open \in BOOLEAN :
       disconnect_resume(p, ok, still_open)
  \/ \E p \in Workers, op \in cmd_type, t \in {None, Some(tasks[1])} :
       dispatch(p, op, t)
  \/ \E p \in Requesting(Workers) :
       \E h \in Handled(p) : remote_reply(p, h)
  \/ \E p \in Requesting(Workers), e \in RequestErrors :
       \E h \in Handled(p) \cup {<<>>} : remote_fail(p, e, h)

SpecRemote == InitRemote /\ [][NextRemote]_vars

\* ------------------------------------------------------------------------
\* The scoped session: get_nats_client / async with NatsClient, with the
\* body of start_multiple_tasks (the concurrent dispatch) or a body that
\* awaits service operations in sequence.  The coroutine that owns the session runs
\* alone except while it awaits asyncio.gather.
\* ------------------------------------------------------------------------
Bodies == {"gather", "sequence"}

InitSession ==
  /\ InitClient
  /\ mpc = "enter"
  /\ session \in [kind : SessionKinds, body : Bodies, path : {"none"},
                  log : {<<>>}]
  /\ validated = NoValidation
  /\ remote = NoRemote
  \* start_multiple_tasks acquires its session with get_nats_client and
  \* passes every task id explicitly
  /\ session.body = "gather" =>
       session.kind = "get_nats_client" /\ TASK_ID = "task01"

Logged(e) == session' = [session EXCEPT !.log = Append(@, e)]

\* the body is left by the given path
Leave(path) ==
  /\ session' = [session EXCEPT !.path = path]
  /\ mpc' = IF exit_calls_disconnect(session.kind, path) THEN "exit" ELSE "done"

\* entry: "await client.connect()" / "await self.connect()"
session_enter ==
  /\ mpc = "enter"
  /\ pc[Main] = "idle"
  /\ connect_call(Main)
  /\ mpc' = "entering"
  /\ Logged("connect")
  /\ UNCHANGED <<ncalls, order, results, validated, remote>>

\* connect() returned: the body is entered; connect() raised: the session
\* ends, through the finally clause where there is one
session_entered ==
  /\ mpc = "entering"
  /\ pc[Main] = "idle"
  /\ IF ret[Main].kind = "raise"
     THEN /\ mpc' = IF failed_entry_calls_disconnect(session.kind)
                    THEN "exit" ELSE "done"
          /\ UNCHANGED session
     ELSE /\ mpc' = "body"
          /\ Logged("body")
  /\ UNCHANGED <<TASK_ID, cvars, pvars, ncalls, order, results, validated, remote>>

\* start_multiple_tasks: the coroutines service.start(task_id=tasks[i]) are
\* handed to asyncio.gather, which schedules them and suspends the caller
gather_start ==
  /\ mpc = "body"
  /\ session.body = "gather"
  /\ pc' = [p \in Procs |-> IF p \in Children THEN "scheduled" ELSE pc[p]]
  /\ mpc' = "gather"
  /\ UNCHANGED <<TASK_ID, cvars, call, handle, ret, cret, dret, got, sent,
                 logs, ncalls, session, order, results, validated, remote>>

\* the i-th coroutine runs start() up to its request await
child_run(i) ==
  /\ mpc = "gather"
  /\ pc[i] = "scheduled"
  /\ dispatch_call(i, "start", Some(tasks[i]))
  /\ order' = IF pc'[i] = "idle" THEN Append(order, i) ELSE order
  /\ UNCHANGED <<ncalls, mpc, session, results, validated, remote>>

\* the exchange of the i-th coroutine ends
child_resume(i, out) ==
  /\ mpc = "gather"
  /\ request_end(i, out)
  /\ order' = Append(order, i)
  /\ UNCHANGED <<mpc, session, results, validated, remote>>

\* all awaitables ended: gather returns (or raises) and the body ends
gather_resume ==
  /\ mpc = "gather"
  /\ \A i \in Children : pc[i] = "idle"
  /\ Len(order) = Len(tasks)
  /\ results' = gather([i \in Children |-> ret[i]], order)
  /\ Leave(IF results'.raised = NoExc THEN "normal" ELSE "failure")
  /\ UNCHANGED <<TASK_ID, cvars, pvars, ncalls, order, validated, remote>>

\* a body that awaits service operations one after the other: the next one
body_call(op, task_id) ==
  /\ mpc = "body"
  /\ session.body = "sequence"
  /\ pc[Main] = "idle"
  /\ ncalls < MaxCalls
  /\ ncalls' = ncalls + 1
  /\ dispatch_call(Main, op, task_id)
  /\ mpc' = "in_body"
  /\ UNCHANGED <<session, order, results, validated, remote>>

\* the operation returned and the body goes on to its next statement
body_next ==
  /\ mpc = "in_body"
  /\ pc[Main] = "idle"
  /\ ret[Main].kind # "raise"
  /\ ncalls < MaxCalls
  /\ mpc' = "body"
  /\ UNCHANGED <<TASK_ID, cvars, pvars, ncalls, session, order, results,
                 validated, remote>>

\* the last operation returned: the body ends normally; an operation
\* raised: the body ends by that failure
body_end ==
  /\ mpc = "in_body"
  /\ pc[Main] = "idle"
  /\ Leave(IF ret[Main].kind = "raise" THEN "failure" ELSE "normal")
  /\ UNCHANGED <<TASK_ID, cvars, pvars, ncalls, order, results, validated, remote>>

\* the owner of the session is cancelled while its body is suspended:
\* CancelledError is raised at the pending awaits (gather cancels its
\* children); it is no Exception, so no except clause of send_command or
\* _send_command takes it
Cancellable(p) ==
  \/ p = Main /\ mpc = "in_body" /\ pc[p] = "request"
  \/ p \in Children /\ mpc = "gather" /\ pc[p] \in {"scheduled", "request"}

cancel ==
  /\ \/ mpc = "gather"
     \/ mpc = "in_body" /\ pc[Main] = "request"
  /\ pc' = [p \in Procs |-> IF Cancellable(p) THEN "idle" ELSE pc[p]]
  /\ ret' = [p \in Procs |-> IF Cancellable(p) THEN Raised(CancelledError)
                             ELSE ret[p]]
  /\ cret' = [p \in Procs |-> IF Cancellable(p) /\ pc[p] = "request"
                              THEN Raised(CancelledError) ELSE cret[p]]
  /\ dret' = [p \in Procs |-> IF Cancellable(p) /\ pc[p] = "request"
                              THEN Raised(CancelledError) ELSE dret[p]]
  /\ Leave("cancel")
  /\ UNCHANGED <<TASK_ID, cvars, call, handle, got, sent, logs, ncalls,
                 order, results, validated, remote>>

\* exit: "await client.disconnect()" / "await self.disconnect()"
session_exit ==
  /\ mpc = "exit"
  /\ pc[Main] = "idle"
  /\ disconnect_call(Main)
  /\ mpc' = "exiting"
  /\ Logged("disconnect")
  /\ UNCHANGED <<ncalls, order, results, validated, remote>>

\* disconnect() returned: the session is over
session_exited ==
  /\ mpc = "exiting"
  /\ pc[Main] = "idle"
  /\ mpc' = "done"
  /\ UNCHANGED <<TASK_ID, cvars, pvars, ncalls, session, order, results, validated, remote>>

NextSession ==
  \/ session_enter
  \/ \E ok \in BOOLEAN : connect_resume(Main, ok)
  \/ session_entered
  \/ gather_start
  \/ \E i \in Children : child_run(i)
  \/ \E i \in Requesting(Children) :
       \E out \in GatherOutcomes(conns[handle[i]], call[i].eff) :
          child_resume(i, out)
  \/ gather_resume
  \/ \E op \in cmd_type, t \in TaskIdArgs : body_call(op, t)
  \/ \E p \in Requesting({Main}) :
       \E out \in RequestOutcomes(conns[handle[p]], call[p].eff) :
          request_resume(p, out)
  \/ body_next
  \/ body_end
  \/ cancel
  \/ session_exit
  \/ \E ok \in BOOLEAN, still_open \in BOOLEAN :
       disconnect_resume(Main, ok, still_open)
  \/ session_exited

SpecSession == InitSession /\ [][NextSession]_vars

\* ------------------------------------------------------------------------
\* The message schema on its own: a message is handed to CommandMessage(...)
\* or a reply text to the deserialization of send_command
\* ------------------------------------------------------------------------
\* keyword arguments of CommandMessage(...): task ids (None: no str), valid
\* and other command names, the payloads of the three operations
CommandNames ==
  cmd_type \cup {"invalid_command", "pause", "START", "Stop", ""}

CommandInputs ==
  [task_id : {None, Some(""), Some("task01"), Some("rec_task_A")},
   cmd : CommandNames,
   payload : {None, Some(StartPayload), Some(StopPayload)}]

\* reply texts: JSON objects with statuses inside and outside their
\* enumerations, with and without payload, and a text that is no JSON
ReplyInputs ==
  {WireReply(TRUE, "task01", m, a, pl) :
     m \in MsgStatus \cup {"invalid_status", "SUCCESS", ""},
     a \in AppStatus \cup {"invalid_status", "bogus", "Started", ""},
     pl \in {None, Some(SamplePayload)}}
  \cup {WireReply(FALSE, "task01", "", "", None)}

\* command messages: every command, every combination of present and
\* absent payload fields, and the null payload
CommandMessages ==
  {CommandMessage(t, c, pl) :
     t \in {"task01", ""},
     c \in cmd_type,
     pl \in {None} \cup
       {Some(CommandPayload(a, b, c1, d, e)) :
          a \in {None, Some(300)}, b \in {None, Some("pulsesrc01")},
          c1 \in {None, Some(96)}, d \in {None, Some("main")},
          e \in {None, Some(2000)}}}

InitSchema ==
  /\ InitClient
  /\ mpc = "off"
  /\ session = NoSession
  /\ remote = NoRemote
  /\ validated \in
       {[model |-> "CommandMessage", input |-> i, outcome |-> NoOutcome] :
          i \in CommandInputs}
       \cup
       {[model |-> "round_trip", input |-> i, outcome |-> NoOutcome] :
          i \in CommandMessages}
       \cup
       {[model |-> "ResponseMessage", input |-> i, outcome |-> NoOutcome] :
          i \in ReplyInputs}

\* CommandMessage(task_id=..., cmd=..., payload=...)
construct_command ==
  /\ validated.model = "CommandMessage"
  /\ validated.outcome = NoOutcome
  /\ validated' =
       [validated EXCEPT !.outcome =
          CommandMessage_init(validated.input.task_id, validated.input.cmd,
                              validated.input.payload)]
  /\ UNCHANGED <<TASK_ID, cvars, pvars, ncalls, mpc, session, order, results,
                 remote>>

\* ResponseMessage(**json.loads(response.data.decode()))
parse_reply ==
  /\ validated.model = "ResponseMessage"
  /\ validated.outcome = NoOutcome
  /\ validated' = [validated EXCEPT !.outcome = ParseReply(validated.input)]
  /\ UNCHANGED <<TASK_ID, cvars, pvars, ncalls, mpc, session, order, results,
                 remote>>

\* CommandMessage(**json.loads(cmd.model_dump_json()))
round_trip ==
  /\ validated.model = "round_trip"
  /\ validated.outcome = NoOutcome
  /\ validated' =
       [validated EXCEPT !.outcome =
          model_validate_json(model_dump_json(validated.input))]
  /\ UNCHANGED <<TASK_ID, cvars, pvars, ncalls, mpc, session, order, results,
                 remote>>

NextSchema ==
  \/ construct_command
  \/ parse_reply
  \/ round_trip

SpecSchema == InitSchema /\ [][NextSchema]_vars

\* ========================================================================
\* Properties
\* ========================================================================
ServiceDone(p) ==
  pc[p] = "idle" /\ call[p].op \in cmd_type /\ ret[p].kind # "none"

\* the exchange of the last call of p failed because the adapter was not
\* connected
NotConnected(p) ==
  got[p].kind = "none" /\ cret[p] = Raised(ConnectionError)

OpenConnections == {h \in 1..Len(conns) : conns[h] = "open"}

\* C1: every call of start(), stop() or status() whose exchange fails by
\* connection loss, by timeout or because no handler is present returns a
\* ResponseMessage and does not raise.
C1_AlwaysResponse ==
  \A p \in Procs :
    ServiceDone(p)
    /\ (\/ NotConnected(p)
        \/ got[p].kind \in {ConnectionClosedError, NATSTimeoutError,
                            NoRespondersError})
    => ret[p].kind = "return" /\ ret[p].resp # None

\* C2: when the exchange ends in a connection failure or a timeout, as
\* NatsClient.send_command signals them, _send_command yields the Response
\* (task_id = effective task id, msg_status = error, app_status = error,
\* payload absent).
C2_ErrorResponse ==
  \A p \in Procs :
    ServiceDone(p)
    /\ (\/ NotConnected(p)
        \/ got[p].kind \in {ConnectionClosedError, NATSTimeoutError})
    => dret[p] = Returned(Some(ResponseMessage(call[p].eff, "error", "error",
                                               None)), TRUE)

\* C3: when send_command signals that no handler is available, start() and
\* stop() raise the failure the adapter signalled: _send_command does not
\* turn it into a Response.
C3_NoHandlerPropagates ==
  \A p \in Procs :
    ServiceDone(p) /\ call[p].op \in {"start", "stop"}
    /\ got[p].kind = NoRespondersError
    => /\ dret[p].kind = "raise"
       /\ ret[p].kind = "raise"
       /\ ret[p].exc = cret[p].exc

\* C4: every schema-valid reply the adapter delivers is returned by start(),
\* stop() and status() as it is.
C4_ReplyUnmodified ==
  \A p \in Procs :
    ServiceDone(p) /\ cret[p].kind = "return" => ret[p] = cret[p]

\* C5: every Response that _send_command builds itself has msg_status =
\* error and app_status = error.
C5_SynthesizedErrorError ==
  \A p \in Procs :
    dret[p].kind = "return" /\ dret[p].synth
    => /\ dret[p].resp[1].msg_status = "error"
       /\ dret[p].resp[1].app_status = "error"

\* a task id that is empty or consists of blanks only (str.strip() == "")
IsBlank(s) == s \in {"", " "}
NoValidTaskId(p) ==
  /\ call[p].task_id = None \/ IsBlank(call[p].task_id[1])
  /\ IsBlank(TASK_ID)

\* C6, as stated: when neither the explicit argument nor the configured
\* default is a valid task id (absent, empty or blank), the dispatch raises
\* the configuration error and sends no request.
C6_BlankRejected ==
  \A p \in Procs :
    call[p].op \in cmd_type /\ NoValidTaskId(p)
    => pc[p] = "idle" /\ ret[p] = Raised(ValueError) /\ sent[p] = <<>>

\* C6, amended: the effective task id is the explicit argument when it is
\* present and not empty, else the configured default; when that id is
\* empty the dispatch raises ValueError without calling the adapter and
\* sends no request; otherwise every request it sends carries that id (an
\* id of blanks included) and ValueError is not raised.
C6_EffectiveTaskId ==
  \A p \in Procs :
    call[p].op \in cmd_type
    => LET a == call[p].task_id
           e == IF a # None /\ a[1] # "" THEN a[1] ELSE TASK_ID
       IN IF e = ""
          THEN /\ pc[p] = "idle"
               /\ ret[p] = Raised(ValueError)
               /\ cret[p] = NoOutcome
               /\ sent[p] = <<>>
          ELSE /\ ret[p] # Raised(ValueError)
               /\ \A k \in 1..Len(sent[p]) : sent[p][k].cmd.task_id = e

\* a dispatch without argument and without configured default on a
\* connected adapter: ValueError, nothing sent
C6_Witness ==
  \E p \in Procs :
    /\ call[p].op \in cmd_type
    /\ call[p].task_id \in {None, Some("")}
    /\ TASK_ID = ""
    /\ is_connected(_connected, _nc)
    /\ ret[p] = Raised(ValueError)
    /\ sent[p] = <<>>

\* C9: at most one transport connection opened by the NatsClient instance
\* is open, whatever the interleaving of connect(), disconnect() and
\* send_command().
C9_AtMostOneOpen == Cardinality(OpenConnections) <= 1

\* ------------------------------------------------------------------------
\* The concurrent dispatch and the scoped session (SpecSession)
\* ------------------------------------------------------------------------
A == 1
B == 2
C == 3

\* asyncio.gather has ended and was not cancelled
GatherEnded ==
  /\ session.body = "gather"
  /\ mpc \in {"exit", "exiting", "done"}
  /\ session.path \in {"normal", "failure"}

\* the exchange of child i delivered a successful Response: a schema-valid
\* reply with msg_status = success that carries its payload
Successful(i) ==
  /\ got[i].kind = "reply"
  /\ got[i].data.json
  /\ got[i].data.msg_status = "success"
  /\ got[i].data.app_status \in AppStatus
  /\ got[i].data.payload # None

\* C7: start is dispatched concurrently for the task ids A, B and C over
\* one session and the exchange of B ends in a timeout: each of A and C
\* whose exchange delivered a successful Response has that Response in the
\* aggregate result.
C7_Isolation ==
  GatherEnded /\ got[B].kind = NATSTimeoutError
  => \A i \in {A, C} :
       Successful(i)
       => /\ results.raised = NoExc
          /\ Len(results.results) = Len(tasks)
          /\ results.results[i] =
               Returned(Some(ResponseMessage(tasks[i], "success",
                                             got[i].data.app_status,
                                             got[i].data.payload)), FALSE)

C7_Witness ==
  /\ GatherEnded
  /\ got[B].kind = NATSTimeoutError
  /\ Successful(A) /\ Successful(C)
  /\ results.results[B].kind = "raise"
  /\ results.results[A].kind = "return"
  /\ results.results[C].kind = "return"

\* C8: the aggregate result holds one outcome per dispatched task id, the
\* i-th outcome being what start() for the i-th task id returned or raised,
\* in every order in which the exchanges end.
C8_Aggregate ==
  GatherEnded
  => /\ results.raised = NoExc
     /\ Len(results.results) = Len(tasks)
     /\ \A i \in Children :
          /\ call[i].op = "start"
          /\ call[i].task_id = Some(tasks[i])
          /\ \A k \in 1..Len(sent[i]) : sent[i][k].cmd.task_id = tasks[i]
          /\ results.results[i].kind \in {"return", "raise"}
          /\ results.results[i] = ret[i]

\* the exchanges ended in the order C, A, B, with a Response for A and C
\* and a raised failure for B
C8_Witness ==
  /\ GatherEnded
  /\ order = <<C, A, B>>
  /\ results.results[A].kind = "return"
  /\ results.results[B].kind = "raise"
  /\ results.results[C].kind = "return"
  /\ results.results[A] # results.results[C]

\* C10: a scoped session calls connect() before its body is entered, and
\* calls disconnect() after the body on every exit path: normal return,
\* failure, cancellation.
C10_ScopedSession ==
  /\ mpc \in {"body", "gather", "in_body"}
       => session.log = <<"connect", "body">>
  /\ session.path # "none" => mpc \in {"exit", "exiting", "done"}
  /\ mpc \in {"exiting", "done"} /\ session.path \in ExitPaths
       => session.log = <<"connect", "body", "disconnect">>

\* a session whose body was cancelled during an exchange has ended, and
\* disconnect() was called and closed the connection
C10_Witness ==
  /\ mpc = "done"
  /\ session.path = "cancel"
  /\ session.body = "sequence"
  /\ session.log = <<"connect", "body", "disconnect">>
  /\ OpenConnections = {}

\* ------------------------------------------------------------------------
\* The release of the connection at the end of a scoped session
\* ------------------------------------------------------------------------
\* C11: once the exit of a scoped session has completed, is_connected is
\* false, on every exit path and also when closing the transport connection
\* raised.
C11_Released == mpc = "done" => ~is_connected(_connected, _nc)

\* ------------------------------------------------------------------------
\* NatsClient.send_command, connect and disconnect (Spec)
\* ------------------------------------------------------------------------
\* the service operation of p reached client.send_command
SendCommandCalled(p) == call[p].op \in cmd_type /\ call[p].eff # ""

\* C12: send_command called while the adapter is not connected raises
\* ConnectionError at once and issues no request on the bus.
C12_NotConnectedNoRequest ==
  \A p \in Procs :
    SendCommandCalled(p) /\ ~call[p].connected
    => /\ pc[p] = "idle"
       /\ cret[p] = Raised(ConnectionError)
       /\ got[p] = NoBus
       /\ sent[p] = <<>>

\* send_command was called after the connection had been closed by
\* disconnect(): the NATS() object is still referenced, nothing was sent
C12_Witness ==
  \E p \in Procs :
    /\ SendCommandCalled(p) /\ ~call[p].connected
    /\ _nc # 0
    /\ cret[p] = Raised(ConnectionError)
    /\ sent[p] = <<>>

\* C13: when the connection is dropped during an exchange (the request ends
\* in ConnectionClosedError), send_command raises ConnectionError and the
\* adapter is disconnected when it does; _connected becomes true again only
\* in a step in which a connect() returns normally; and every send_command
\* called while the adapter is disconnected raises ConnectionError without
\* issuing a request.
C13_DropFailsFast ==
  /\ [](\A p \in Procs :
          pc[p] = "idle" /\ got[p].kind = ConnectionClosedError
          => cret[p] = Raised(ConnectionError))
  /\ [][\A p \in Procs :
          pc[p] = "request" /\ pc'[p] = "idle"
          /\ got'[p].kind = ConnectionClosedError
          => ~is_connected(_connected', _nc')]_vars
  /\ [][~_connected /\ _connected'
        => \E p \in Procs :
             /\ pc[p] = "connect" /\ pc'[p] = "idle"
             /\ call'[p].op = "connect"
             /\ ret'[p] = Returned(None, FALSE)]_vars
  /\ [](\A p \in Procs :
          SendCommandCalled(p) /\ ~call[p].connected
          => /\ pc[p] = "idle"
             /\ cret[p] = Raised(ConnectionError)
             /\ sent[p] = <<>>)

\* the connection of the adapter was dropped in an exchange, and a
\* send_command called after that failed with ConnectionError, nothing sent
C13_Witness ==
  \E p \in Procs :
    /\ _nc # 0 /\ conns[_nc] = "lost"
    /\ ~is_connected(_connected, _nc)
    /\ SendCommandCalled(p) /\ ~call[p].connected
    /\ pc[p] = "idle"
    /\ cret[p] = Raised(ConnectionError)
    /\ sent[p] = <<>>

\* the failure kinds send_command signals for connection failures: not
\* connected, and connection dropped during the exchange
ConnectionFailureKinds ==
  {ConnectionError, send_command_resume(BusError(ConnectionClosedError)).exc}

\* C14: when no handler is available for the channel (the request ends in
\* NoRespondersError), send_command raises a failure whose kind is none of
\* the kinds it raises for connection failures.
C14_NoHandlerDistinct ==
  \A p \in Procs :
    pc[p] = "idle" /\ got[p].kind = NoRespondersError
    => /\ cret[p].kind = "raise"
       /\ cret[p].exc \notin ConnectionFailureKinds

\* C15: when the reply fails schema validation (a text that is no JSON, a
\* msg_status or app_status outside its enumeration), send_command raises
\* and returns no Response, and start(), stop() and status() raise that
\* failure instead of returning a Response.
C15_MalformedPropagates ==
  \A p \in Procs :
    ServiceDone(p) /\ got[p].kind = "reply"
    /\ ParseReply(got[p].data).kind = "raise"
    => /\ cret[p].kind = "raise"
       /\ dret[p] = cret[p]
       /\ ret[p] = cret[p]

\* C16: a call of start(), stop() or status() issues at most one request on
\* the bus, none when it ends before the exchange, and what send_command,
\* _send_command and the operation end with is derived from that one
\* exchange: no failure is followed by a second attempt.
C16_AtMostOnce ==
  \A p \in Procs :
    call[p].op \in cmd_type
    => /\ Len(sent[p]) <= 1
       /\ pc[p] = "request"
            => Len(sent[p]) = 1 /\ cret[p] = NoOutcome
       /\ pc[p] = "idle" /\ got[p].kind # "none"
            => /\ Len(sent[p]) = 1
               /\ cret[p] = send_command_resume(got[p])
               /\ dret[p] = _send_command_resume(cret[p], call[p].eff)
               /\ ret[p] = log_result(call[p].op, dret[p])
       /\ pc[p] = "idle" /\ got[p].kind = "none"
          /\ ret[p] # Raised(CancelledError)
            => sent[p] = <<>>

\* an operation whose exchange timed out has ended, one request issued
C16_Witness ==
  \E p \in Procs :
    /\ ServiceDone(p)
    /\ got[p].kind = NATSTimeoutError
    /\ cret[p] = Raised(TimeoutError)
    /\ Len(sent[p]) = 1

\* worker p begins a call in this step (the call counter advances and p was
\* idle: the records of the other idle workers are dropped by the step)
Begins(p, op) ==
  pc[p] = "idle" /\ ncalls' = ncalls + 1 /\ call'[p].op = op

\* C17: connect() called while the adapter is connected returns at once,
\* opens no transport connection and changes no state of the adapter.
C17_ConnectIdempotent ==
  /\ [][\A p \in Workers :
          Begins(p, "connect") /\ _connected /\ _nc # 0
          => /\ pc'[p] = "idle"
             /\ ret'[p] = Returned(None, FALSE)
             /\ _nc' = _nc /\ _connected' = _connected /\ conns' = conns]_vars
  /\ [](\A p \in Procs :
          call[p].op = "connect" /\ call[p].connected
          => pc[p] = "idle" /\ ret[p] = Returned(None, FALSE))

\* connect() was called on the connected adapter and returned; the one
\* connection opened before is the only one
C17_Witness ==
  \E p \in Procs :
    /\ call[p].op = "connect" /\ call[p].connected
    /\ pc[p] = "idle" /\ ret[p] = Returned(None, FALSE)
    /\ conns = <<"open">>
    /\ _nc = 1 /\ _connected

\* every coroutine is idle and the call that ended last was a disconnect()
\* that returned
DisconnectReturned ==
  /\ \A r \in Workers : pc[r] = "idle"
  /\ \E q \in Workers : call[q].op = "disconnect" /\ ret[q].kind = "return"

\* C18: disconnect() always returns normally, also when closing the
\* transport raised; called while the adapter is not connected it closes
\* nothing; and a disconnect() called right after a disconnect() that
\* returned closes nothing: it does not call close() on an open connection.
C18_DisconnectIdempotent ==
  /\ [](\A p \in Procs :
          call[p].op = "disconnect" /\ pc[p] = "idle"
          => ret[p] = Returned(None, FALSE))
  /\ [](\A p \in Procs :
          call[p].op = "disconnect" /\ ~call[p].connected => pc[p] = "idle")
  /\ [][\A p \in Workers :
          Begins(p, "disconnect") /\ DisconnectReturned
          => pc'[p] = "idle" \/ conns[handle'[p]] # "open"]_vars

C20_ReplyValidated ==
  validated.model = "ResponseMessage" /\ validated.outcome # NoOutcome
  /\ validated.input.json
  /\ (\/ validated.input.msg_status \notin {"success", "error"}
      \/ validated.input.app_status \notin {"started", "stopped", "error"})
  => /\ validated.outcome = Raised(ValidationError)
     /\ validated.outcome.resp = None

\* the reply of test_invalid_app_status was deserialized and rejected
C20_Witness ==
  /\ validated.model = "ResponseMessage"
  /\ validated.input.json
  /\ validated.input.msg_status = "success"
  /\ validated.input.app_status = "invalid_status"
  /\ validated.outcome = Raised(ValidationError)

\* C21: serializing a CommandMessage and deserializing the text gives a
\* CommandMessage with the same task_id, the same cmd and the same value in
\* every payload field, absent fields and the null payload included.
C21_RoundTrip ==
  validated.model = "round_trip" /\ validated.outcome # NoOutcome
  => /\ validated.outcome.kind = "return"
     /\ LET m == validated.outcome.resp[1]
            i == validated.input
        IN /\ m.task_id = i.task_id
           /\ m.cmd = i.cmd
           /\ (i.payload = None) = (m.payload = None)
           /\ i.payload # None =>
                \A f \in DOMAIN PayloadFields :
                  m.payload[1][f] = i.payload[1][f]

\* a stop command whose payload carries segment_time only went through the
\* round trip
C21_Witness ==
  /\ validated.model = "round_trip"
  /\ validated.input = CommandMessage("task01", "stop", Some(StopPayload))
  /\ validated.outcome = Returned(Some(validated.input), FALSE)

\* ------------------------------------------------------------------------
\* The commands the service sends (Spec)
\* ------------------------------------------------------------------------
\* C22: every command sent by status() has cmd = status and a null
\* payload; every command sent by start() has cmd = start, by stop() cmd =
\* stop, and a payload that is not null.
C22_CommandShape ==
  \A p \in Procs :
    \A k \in 1..Len(sent[p]) :
      LET c == sent[p][k].cmd
      IN /\ call[p].op \in {"start", "stop", "status"}
         /\ c.cmd = call[p].op
         /\ call[p].op = "status" => c.payload = None
         /\ call[p].op \in {"start", "stop"} => c.payload # None

\* a status command and a start command are on the bus at the same time
C22_Witness ==
  \E p, q \in Procs :
    /\ pc[p] = "request" /\ call[p].op = "status"
    /\ sent[p][1].cmd.payload = None
    /\ pc[q] = "request" /\ call[q].op = "start"
    /\ sent[q][1].cmd.payload = Some(StartPayload)

\* C23: status() is an observer of the remote task.  A status() sends no
\* command but a status command; the step in which its exchange ends
\* changes the state of no remote task; and whenever the reply of the
\* remote application arrives, status() returns the app_status the task is
\* in, so that N calls with no start or stop handled in between return the
\* same app_status.
C23_StatusObserves ==
  /\ [](\A p \in Procs :
          call[p].op = "status" =>
            \A k \in 1..Len(sent[p]) : sent[p][k].cmd.cmd = "status")
  /\ [][\A p \in Workers :
          pc[p] = "request" /\ call[p].op = "status" /\ pc'[p] = "idle"
          => /\ remote' = remote
             /\ got'[p].kind = "reply" =>
                  /\ ret'[p].kind = "return"
                  /\ ret'[p].resp # None
                  /\ ret'[p].resp[1].app_status = remote[call[p].eff]]_vars

\* a status() returned "started" for a task that a start() before it had
\* started
C23_Witness ==
  \E p \in Workers :
    /\ ServiceDone(p) /\ call[p].op = "status" /\ got[p].kind = "reply"
    /\ ret[p].resp[1].app_status = "started"
    /\ remote[call[p].eff] = "started"
    /\ ncalls >= 3

\* C24: in the concurrent dispatch, an exchange that is in flight when the
\* exchange of another task ends, in whatever way, stays in flight with its
\* request and its records as they were; and every exchange to which the
\* bus delivers a well-formed reply returns that reply from send_command,
\* whatever the other exchanges ended with and whatever they made of the
\* adapter state.
C24_InFlightIsolated ==
  /\ [](\A i \in Children :
          pc[i] = "idle" /\ got[i].kind = "reply" /\ got[i].data.json
          /\ got[i].data.msg_status \in MsgStatus
          /\ got[i].data.app_status \in AppStatus
          => cret[i] =
               Returned(Some(ResponseMessage(got[i].data.task_id,
                                             got[i].data.msg_status,
                                             got[i].data.app_status,
                                             got[i].data.payload)), FALSE))
  /\ [][\A i, j \in Children :
          /\ i # j
          /\ pc[j] = "request" /\ pc'[j] = "idle" /\ got'[j].kind # "none"
          /\ pc[i] = "request"
          => /\ pc'[i] = "request"
             /\ sent'[i] = sent[i]
             /\ handle'[i] = handle[i]
             /\ cret'[i] = NoOutcome /\ ret'[i] = NoOutcome]_vars

\* the exchange of B ended first, with the connection reported closed, which
\* marked the adapter disconnected; then the reply of A arrived and was
\* returned
C24_Witness ==
  /\ Len(order) >= 2 /\ order[1] = B /\ order[2] = A
  /\ got[B].kind = ConnectionClosedError
  /\ ~_connected
  /\ Successful(A)
  /\ cret[A].kind = "return" /\ ~cret[A].synth

\* C25: whenever send_command raised, it emitted a log record of the
\* failure before the raise: the last record it logged is at error level.
C25_FailureLogged ==
  \A p \in Procs :
    cret[p].kind = "raise"
    => Len(logs[p]) > 0 /\ logs[p][Len(logs[p])] = "error"

C27_SameConnection ==
  /\ [](mpc \in {"body", "in_body", "gather"}
        => /\ _nc = 1
           /\ Len(conns) = 1
           /\ conns[1] \in {"open", "lost"}
           /\ \A p \in Procs :
                \A k \in 1..Len(sent[p]) : sent[p][k].handle = 1)
  /\ [][(mpc' = mpc /\ mpc \in {"body", "in_body", "gather"})
        => /\ _nc' = _nc
           /\ Len(conns') = Len(conns)
           /\ (conns'[1] = conns[1] \/ conns'[1] = "lost")]_vars

\* the body awaited MaxCalls operations, all of which returned, the last
\* one with the reply that arrived over the connection of the entry
C27_Witness ==
  /\ mpc = "in_body" /\ session.body = "sequence"
  /\ ncalls = MaxCalls
  /\ ServiceDone(Main) /\ cret[Main].kind = "return"
  /\ sent[Main][1].handle = 1
  /\ _nc = 1 /\ conns = <<"open">>

\* C28: the step in which an exchange ends in a timeout, in the absence of
\* a handler or in a malformed reply changes neither _connected nor _nc nor
\* any connection; an exchange that ends makes a connected adapter
\* disconnected only when it ends in ConnectionClosedError; and a
\* send_command called while the adapter is connected issues its one
\* request over the connection of the adapter.
C28_FailureKeepsConnection ==
  /\ [][\A p \in Workers :
          /\ pc[p] = "request" /\ pc'[p] = "idle"
          /\ \/ got'[p].kind \in {NATSTimeoutError, NoRespondersError}
             \/ got'[p].kind = "reply" /\ cret'[p].kind = "raise"
          => /\ _connected' = _connected
             /\ _nc' = _nc
             /\ conns' = conns]_vars
  /\ [][\A p \in Workers :
          /\ pc[p] = "request" /\ pc'[p] = "idle"
          /\ is_connected(_connected, _nc) /\ ~is_connected(_connected', _nc')
          => got'[p].kind = ConnectionClosedError]_vars
  /\ [][\A p \in Workers, op \in cmd_type :
          Begins(p, op) /\ is_connected(_connected, _nc) /\ call'[p].eff # ""
          => /\ pc'[p] = "request"
             /\ Len(sent'[p]) = 1
             /\ sent'[p][1].handle = _nc]_vars

\* an exchange of the connected adapter timed out and the adapter is
\* connected as before, its connection open
C28_Witness ==
  \E p \in Workers :
    /\ ServiceDone(p) /\ call[p].connected
    /\ got[p].kind = NATSTimeoutError
    /\ cret[p] = Raised(TimeoutError)
    /\ is_connected(_connected, _nc)
    /\ conns[_nc] = "open"

\* C29: every start(), stop() or status() completes.  The call either ends
\* in the step that begins it or suspends at its one request; the step that
\* ends the request ends the call, which has returned a Response or raised
\* a failure; and no call stays suspended at its request: the callers begin
\* finitely many calls, so from some point on none is suspended.
C29_DispatchCompletes ==
  /\ [][\A p \in Workers, op \in cmd_type :
          Begins(p, op)
          => \/ pc'[p] = "request"
             \/ pc'[p] = "idle" /\ ret'[p].kind \in {"return", "raise"}]_vars
  /\ [][\A p \in Workers :
          pc[p] = "request" /\ pc'[p] # "request"
          => pc'[p] = "idle" /\ ret'[p].kind \in {"return", "raise"}]_vars
  /\ <>[](Requesting(Workers) = {})

\* an exchange that the bus ended by its timeout after the connection had
\* been closed under it: the call returned the Response of the failure
C29_Witness ==
  \E p \in Workers :
    /\ ServiceDone(p)
    /\ got[p].kind = NATSTimeoutError
    /\ _nc # 0 /\ conns[_nc] = "closed"
    /\ ret[p].kind = "return" /\ ret[p].synth

\* C30: the service keeps no state between its calls.  No step changes the
\* configured default task id; and what a start(), stop() or status() that
\* has ended returned or raised is determined by its operation, its task id
\* argument, the configured default and what client.send_command returned
\* or raised for it, whatever calls went before in the session: with no
\* effective task id it is ValueError and the adapter was not called,
\* otherwise it is what _send_command and the log line make of the adapter's
\* outcome.  (A call that was cancelled has no outcome of its own.)
C30_Stateless ==
  /\ [][TASK_ID' = TASK_ID]_vars
  /\ [](\A p \in Procs :
          ServiceDone(p) /\ ret[p] # Raised(CancelledError)
          => LET a == call[p].task_id
                 e == IF a # None /\ a[1] # "" THEN a[1] ELSE TASK_ID
             IN IF e = ""
                THEN ret[p] = Raised(ValueError) /\ cret[p] = NoOutcome
                ELSE /\ cret[p] # NoOutcome
                     /\ dret[p] = _send_command_resume(cret[p], e)
                     /\ ret[p] = log_result(call[p].op, dret[p]))

\* a status() without task id argument, the third operation of the body of
\* a session, returned the reply of the adapter for the configured default
\* task id
C30_Witness ==
  \E p \in Procs :
    /\ ncalls = 3 /\ mpc = "in_body"
    /\ ServiceDone(p) /\ call[p].op = "status" /\ call[p].task_id = None
    /\ TASK_ID = "task01"
    /\ cret[p].kind = "return"
    /\ ret[p] = cret[p]
    /\ ret[p].resp[1].task_id = "task01"

====
